---------------------------- MODULE Spec2Model ----------------------------
(* Dynamic time warping (dtw) and its multiresolution approximation         *)
(* (fastdtw): the cost storage, the two window iterators, the three-way     *)
(* minimum, the dynamic-programming engine dtw_ex and the recursive driver  *)
(* fastdtw_ex, each translated from the Rust source.                        *)
(*                                                                          *)
(* Numbers.  Samples and costs are f64 in the source.  The model holds them *)
(* as naturals, with INFINITY for f64::INFINITY; every sample the model     *)
(* draws is an integer and every block average it takes is an integer, so   *)
(* the f64 arithmetic of the source is exact on the same inputs.            *)
EXTENDS Integers, Sequences, FiniteSets, TLC

VARIABLES
    min_args,                \* the (i, d, m) handed to minimum
    min_ret,                 \* what minimum returned
    x, y,                    \* the two time series of a dtw / fastdtw call
    distance_mode,           \* DistanceMode of the call
    MAX_COST_STORAGE_MATRIX, \* the process-wide budget of cost.rs
    dtw_ret,                 \* result of dtw_ex(x, y, FullWindow, mode)
    dtw_rev,                 \* result of dtw_ex(y, x, FullWindow, mode)
    win_args,                \* what the window under iteration was built from
    window,                  \* the iterator object (FullWindow / ConstrainedWindow)
    produced,                \* every value next() has returned so far, in order
    dense, sparse,           \* a CostMatrix and a CostCache given the same writes
    writes,                  \* the cells written so far (costs, actions)
    resolution_factor,       \* fastdtw_ex arguments
    search_radius,
    stack,                   \* fastdtw_ex call stack: one frame per recursion level
    pc,                      \* where the fastdtw_ex call is
    fast_ret                 \* what the most recently finished level returned

minVars  == <<min_args, min_ret>>
callVars == <<x, y, distance_mode, MAX_COST_STORAGE_MATRIX>>
dtwVars  == <<dtw_ret, dtw_rev>>
winVars  == <<win_args, window, produced>>
stoVars  == <<dense, sparse, writes>>
fastVars == <<resolution_factor, search_radius, stack, pc, fast_ret>>
vars     == <<minVars, callVars, dtwVars, winVars, stoVars, fastVars>>

----------------------------------------------------------------------------
(* Bounds of the model *)

MaxCost == 3      \* costs handed to minimum and to set_cost: 0..MaxCost, INFINITY
MaxLen == 3       \* dtw: time series have 1..MaxLen samples
MaxSize == 4      \* FullWindow::new: sizes 0..MaxSize
MaxDim == 2       \* cost storage: 1..MaxDim rows and columns
MaxWrites == 2    \* cost storage: at most this many set_cost / set_action each
MaxNones == 2     \* how many times next() is called on an exhausted iterator
MaxFactor == 3    \* resolution_factor up to MaxFactor
MaxRadius == 1    \* search_radius in 0..MaxRadius
MaxHigh == 4      \* ConstrainedWindow: 1..MaxHigh high resolution rows and columns
MaxPath == 3      \* ConstrainedWindow: low resolution paths of 1..MaxPath cells
MaxLenFast == 5   \* fastdtw: time series have 1..MaxLenFast samples
MaxDepth == 4     \* fastdtw: at most this many nested calls of fastdtw_ex

Unused == "unused"          \* value of a variable the specification does not use
None == <<>>                \* Option::None
Some(v) == <<v>>            \* Option::Some(v)

----------------------------------------------------------------------------
(* f64 values: naturals and +infinity *)

INFINITY == -1

\* a < b on f64
Lt(a, b) == a # INFINITY /\ (b = INFINITY \/ a < b)

\* a + b on f64
Add(a, b) == IF a = INFINITY \/ b = INFINITY THEN INFINITY ELSE a + b

\* f64::abs(a - b) on finite values
AbsDiff(a, b) == IF a < b THEN b - a ELSE a - b

\* The largest k with k * k <= n.
ISqrt(n) == CHOOSE k \in 0..n : k * k <= n /\ (k + 1) * (k + 1) > n

\* The accumulated cost returned without taking its square root
distance_without_sqrt(c) == [num |-> c, root |-> FALSE]

\* f64::sqrt.  A distance is [num, root]: the number num when root is FALSE,
\* the irrational square root of num when root is TRUE.  The square root of a
\* perfect square is the whole number, so the representation is canonical.
Sqrt(c) ==
    IF c = INFINITY THEN [num |-> INFINITY, root |-> FALSE]
    ELSE IF ISqrt(c) * ISqrt(c) = c THEN [num |-> ISqrt(c), root |-> FALSE]
    ELSE [num |-> c, root |-> TRUE]

\* A cost returned as it is (Manhattan mode)
Plain(c) == [num |-> c, root |-> FALSE]

----------------------------------------------------------------------------
(* enums.rs *)

Action == {"Inserted", "Deleted", "Matched", "Unknown"}
DistanceMode == {"Manhattan", "Euclidean"}

----------------------------------------------------------------------------
(* dtw.rs: minimum *)

\* The claimed tie-break (insertion, then deletion, then match)
minimum_insertion_first(i, d, m) ==
    IF ~Lt(d, i)
    THEN IF ~Lt(m, i) THEN [value |-> i, action |-> "Inserted"]
         ELSE [value |-> m, action |-> "Matched"]
    ELSE IF ~Lt(m, d) THEN [value |-> d, action |-> "Deleted"]
         ELSE [value |-> m, action |-> "Matched"]

\* minimum without its deletion branch
minimum_no_deletion(i, d, m) ==
    IF Lt(i, d) /\ Lt(i, m) THEN [value |-> i, action |-> "Inserted"]
    ELSE [value |-> m, action |-> "Matched"]

\* minimum taking the deletion when it ties with the match
minimum_deletion_on_tie(i, d, m) ==
    IF Lt(i, d)
    THEN IF Lt(i, m) THEN [value |-> i, action |-> "Inserted"]
         ELSE [value |-> m, action |-> "Matched"]
    ELSE IF ~Lt(m, d) THEN [value |-> d, action |-> "Deleted"]
         ELSE [value |-> m, action |-> "Matched"]

minimum(i, d, m) ==
    IF Lt(i, d)
    THEN IF Lt(i, m) THEN [value |-> i, action |-> "Inserted"]
         ELSE [value |-> m, action |-> "Matched"]
    ELSE IF Lt(d, m) THEN [value |-> d, action |-> "Deleted"]
         ELSE [value |-> m, action |-> "Matched"]

----------------------------------------------------------------------------
(* cost.rs: CostMatrix (dense) and CostCache (sparse) *)

\* A HashMap with no entry
EmptyMap == [k \in {} |-> 0]

\* HashMap::insert
Insert(map, k, v) == [j \in DOMAIN map \cup {k} |-> IF j = k THEN v ELSE map[j]]

CostMatrixNew(rows, columns) ==
    [kind           |-> "dense",
     cost_matrix    |-> [p \in (0..rows - 1) \X (0..columns - 1) |->
                            IF p = <<0, 0>> THEN 0 ELSE INFINITY],
     actions_matrix |-> [p \in (0..rows - 1) \X (0..columns - 1) |-> "Unknown"]]

CostCacheNew(rows) ==
    [kind          |-> "sparse",
     cost_cache    |-> [r \in 0..rows - 1 |-> EmptyMap],
     actions_cache |-> [r \in 0..rows - 1 |-> EmptyMap]]

\* CostMatrix::get_cost
DenseGetCost(s, row, column) ==
    IF row = 0 /\ column = 0 THEN 0
    ELSE IF row = 0 \/ column = 0 THEN INFINITY
    ELSE s.cost_matrix[<<row - 1, column - 1>>]

\* CostCache::get_cost with a missing entry read as 0
SparseGetCost_missing_zero(s, row, column) ==
    IF row = 0 /\ column = 0 THEN 0
    ELSE IF row = 0 \/ column = 0 THEN INFINITY
    ELSE IF column - 1 \in DOMAIN s.cost_cache[row - 1]
         THEN s.cost_cache[row - 1][column - 1]
         ELSE 0

\* CostCache::get_cost
SparseGetCost(s, row, column) ==
    IF row = 0 /\ column = 0 THEN 0
    ELSE IF row = 0 \/ column = 0 THEN INFINITY
    ELSE IF column - 1 \in DOMAIN s.cost_cache[row - 1]
         THEN s.cost_cache[row - 1][column - 1]
         ELSE INFINITY

get_cost(s, row, column) ==
    IF s.kind = "dense" THEN DenseGetCost(s, row, column)
    ELSE SparseGetCost(s, row, column)

\* set_cost; row and column are positive (assert_ne!)
set_cost(s, row, column, cost) ==
    IF s.kind = "dense"
    THEN [s EXCEPT !.cost_matrix[<<row - 1, column - 1>>] = cost]
    ELSE [s EXCEPT !.cost_cache[row - 1] = Insert(@, column - 1, cost)]

\* Whether get_action finds an entry: always in the dense matrix, in the
\* sparse cache only for a written cell (indexing a HashMap with a missing
\* key panics).
HasAction(s, row, column) ==
    s.kind = "dense" \/ column - 1 \in DOMAIN s.actions_cache[row - 1]

\* get_action; row and column are positive (assert_ne!) and HasAction holds
get_action(s, row, column) ==
    IF s.kind = "dense" THEN s.actions_matrix[<<row - 1, column - 1>>]
    ELSE s.actions_cache[row - 1][column - 1]

\* set_action; row and column are positive (assert_ne!)
set_action(s, row, column, action) ==
    IF s.kind = "dense"
    THEN [s EXCEPT !.actions_matrix[<<row - 1, column - 1>>] = action]
    ELSE [s EXCEPT !.actions_cache[row - 1] = Insert(@, column - 1, action)]

\* size_of::<f64>()
SizeOfF64 == 8

\* The factory: dense when the projected table is strictly under the budget
cost_storage(rows, columns, budget) ==
    IF rows * columns * SizeOfF64 < budget
    THEN CostMatrixNew(rows, columns)
    ELSE CostCacheNew(rows)

----------------------------------------------------------------------------
(* window.rs: FullWindow *)

\* FullWindow::new(x_size, y_size): the first argument bounds the rows
FullWindowNew(x_size, y_size) ==
    [kind |-> "full", row |-> 1, column |-> 1,
     end_row |-> x_size + 1, end_column |-> y_size + 1]

\* FullWindow::next: the item returned and the iterator afterwards
FullWindowNext(w) ==
    IF w.column < w.end_column
    THEN [item |-> Some(<<w.row, w.column>>),
          self |-> [w EXCEPT !.column = w.column + 1]]
    ELSE IF w.row < w.end_row - 1
    THEN [item |-> Some(<<w.row + 1, 1>>),
          self |-> [w EXCEPT !.row = w.row + 1, !.column = 2]]
    ELSE [item |-> None, self |-> w]


----------------------------------------------------------------------------
(* window.rs: ConstrainedWindow *)

\* usize::MAX.  The model's value stands for 2^64 - 1: it is above every
\* column of the model and the code does no arithmetic on it (it is only
\* compared, as the minimum of a row not yet visited and as the previous
\* coarse cell before the first one).
USIZE_MAX == 2147483647

\* ConstrainedWindow::visit, on the constraints array
visit(constraints, row, column) ==
    LET min == IF constraints[row][1] > column THEN column ELSE constraints[row][1]
        max == IF constraints[row][2] < column THEN column ELSE constraints[row][2]
    IN  [constraints EXCEPT ![row] = <<min, max>>]

\* window.visit for each cell of a sequence, in order
RECURSIVE visit_all(_, _)
visit_all(constraints, cells) ==
    IF cells = <<>> THEN constraints
    ELSE visit_all(visit(constraints, cells[1][1], cells[1][2]), Tail(cells))

\* The block of a coarse cell with the inner loop over the columns left out
block_cells_first_column(low_res_row, low_res_column, factor, high_res_rows, high_res_columns) ==
    LET all == [k \in 1..factor |->
                   <<(low_res_row - 1) * factor + 1 + (k - 1),
                     (low_res_column - 1) * factor + 1>>]
    IN  SelectSeq(all, LAMBDA cell : cell[1] < high_res_rows + 1
                                     /\ cell[2] < high_res_columns + 1)

\* Lines 88-96: the cells of the block a coarse cell (1-based) projects to,
\* in loop order, clipped to the table
block_cells(low_res_row, low_res_column, factor, high_res_rows, high_res_columns) ==
    LET all == [k \in 1..factor * factor |->
                   <<(low_res_row - 1) * factor + 1 + ((k - 1) \div factor),
                     (low_res_column - 1) * factor + 1 + ((k - 1) % factor)>>]
    IN  SelectSeq(all, LAMBDA cell : cell[1] < high_res_rows + 1
                                     /\ cell[2] < high_res_columns + 1)

\* (resolution_factor as f64 / 2f64).ceil() as usize
half_resolution_factor(factor) == (factor + 1) \div 2

\* Lines 110-140: the cells of the two patches beside the corner shared by
\* the blocks of a diagonal move, in loop order.  Entry 2j - 1 is the first
\* visit of iteration j (right of the bottom left block), entry 2j the second
\* (left of the top right block).
patch_cells(prev_low_res_row, prev_low_res_column, factor, high_res_rows, high_res_columns) ==
    LET corner_bottom_left_row    == (prev_low_res_row - 1) * factor + factor
        corner_bottom_left_column == (prev_low_res_column - 1) * factor + factor
        corner_top_right_row      == corner_bottom_left_row + 1
        corner_top_right_column   == corner_bottom_left_column + 1
        half == half_resolution_factor(factor)
        row(j)    == (j - 1) \div half
        column(j) == (j - 1) % half
        all == [k \in 1..2 * half * half |->
                   IF k % 2 = 1
                   THEN <<corner_bottom_left_row - row((k + 1) \div 2),
                          corner_top_right_column + column((k + 1) \div 2)>>
                   ELSE <<corner_top_right_row + row(k \div 2),
                          corner_bottom_left_column - column(k \div 2)>>]
    IN  SelectSeq(all, LAMBDA cell :
                      IF cell[1] <= corner_bottom_left_row
                      THEN cell[2] < high_res_columns + 1
                      ELSE cell[1] < high_res_rows + 1)

\* Lines 78-143: the loop over the low resolution path, from its entry k on;
\* prev is the previous coarse cell, 1-based
RECURSIVE project_path(_, _, _, _, _, _, _)
project_path(constraints, low_res_path, k, prev, factor, high_res_rows, high_res_columns) ==
    IF k > Len(low_res_path) THEN constraints
    ELSE LET low_res_row    == low_res_path[k][1] + 1
             low_res_column == low_res_path[k][2] + 1
             block   == visit_all(constraints,
                                  block_cells(low_res_row, low_res_column, factor,
                                              high_res_rows, high_res_columns))
             patched == IF prev[1] < low_res_row /\ prev[2] < low_res_column
                        THEN visit_all(block,
                                       patch_cells(prev[1], prev[2], factor,
                                                   high_res_rows, high_res_columns))
                        ELSE block
         IN  project_path(patched, low_res_path, k + 1,
                          <<low_res_row, low_res_column>>, factor,
                          high_res_rows, high_res_columns)

\* Lines 152-160: expand every row maximum to the right and upwards
RECURSIVE expand_max(_, _, _, _, _)
expand_max(constraints, row, radius, high_res_rows, high_res_columns) ==
    IF row > high_res_rows THEN constraints
    ELSE LET row_max == constraints[row][2]
             expanded_row_max == IF row_max + radius < high_res_columns
                                 THEN row_max + radius ELSE high_res_columns
             all == [i \in 1..radius + 1 |-> <<row - (i - 1), expanded_row_max>>]
             cells == SelectSeq(all, LAMBDA cell : cell[1] >= 1)
         IN  expand_max(visit_all(constraints, cells), row + 1, radius,
                        high_res_rows, high_res_columns)

\* Lines 161-172: expand every row minimum to the left and downwards
RECURSIVE expand_min(_, _, _, _)
expand_min(constraints, row, radius, high_res_rows) ==
    IF row < 1 THEN constraints
    ELSE LET row_min == constraints[row][1]
             expanded_row_min == IF row_min > radius THEN row_min - radius ELSE 1
             all == [i \in 1..radius + 1 |-> <<row + (i - 1), expanded_row_min>>]
             cells == SelectSeq(all, LAMBDA cell : cell[1] <= high_res_rows)
         IN  expand_min(visit_all(constraints, cells), row - 1, radius,
                        high_res_rows)

\* The constraints after the loop over the path, before the expansion
projected(low_res_path, factor, high_res_rows, high_res_columns) ==
    project_path([row \in 0..high_res_rows |-> <<USIZE_MAX, 0>>],
                 low_res_path, 1, <<USIZE_MAX, USIZE_MAX>>, factor,
                 high_res_rows, high_res_columns)

\* ConstrainedWindow::from_low_res_path
from_low_res_path(low_res_path, factor, radius, high_res_rows, high_res_columns) ==
    LET marked  == projected(low_res_path, factor, high_res_rows, high_res_columns)
        widened == expand_max(marked, 1, radius, high_res_rows, high_res_columns)
    IN  [kind |-> "constrained",
         constraints |-> expand_min(widened, high_res_rows, radius, high_res_rows),
         row |-> 1, column |-> 1]

\* ConstrainedWindow::next: the item returned and the iterator afterwards.
\* constraints.shape()[0] - 1 is the last row.  No row from 1 on keeps the
\* minimum usize::MAX (the expansion visits every row), so column + 1 does
\* not overflow.
ConstrainedWindowNext(w) ==
    IF w.column <= w.constraints[w.row][2]
    THEN [item |-> Some(<<w.row, w.column>>),
          self |-> [w EXCEPT !.column = w.column + 1]]
    ELSE IF w.row < Cardinality(DOMAIN w.constraints) - 1
    THEN [item |-> Some(<<w.row + 1, w.constraints[w.row + 1][1]>>),
          self |-> [w EXCEPT !.row = w.row + 1,
                             !.column = w.constraints[w.row + 1][1] + 1]]
    ELSE [item |-> None, self |-> w]

----------------------------------------------------------------------------
(* window.rs: the Iterator trait, dispatched on the window handed to dtw_ex *)

WindowNext(w) ==
    IF w.kind = "full" THEN FullWindowNext(w) ELSE ConstrainedWindowNext(w)

----------------------------------------------------------------------------
(* dtw.rs: dtw_ex and dtw *)

\* A call that panicked, and why
Panicked(why) ==
    [panic |-> why, distance |-> Plain(INFINITY), cost |-> INFINITY, path |-> <<>>]

\* The local cost of cell (row, column): lines 62-68 of dtw_ex
local_cost(xs, ys, row, column, mode) ==
    IF mode = "Manhattan"
    THEN AbsDiff(xs[column], ys[row])
    ELSE AbsDiff(xs[column], ys[row]) * AbsDiff(xs[column], ys[row])

\* The predecessors of a cell with the cell to the left read twice
cell_minimum_no_diagonal(s, row, column) ==
    minimum(get_cost(s, row - 1, column),
            get_cost(s, row, column - 1),
            get_cost(s, row, column - 1))

\* The predecessors of a cell handed to minimum: lines 70-74 of dtw_ex
cell_minimum(s, row, column) ==
    minimum(get_cost(s, row - 1, column),
            get_cost(s, row, column - 1),
            get_cost(s, row - 1, column - 1))

\* The loop over the window: lines 61-78 of dtw_ex.  x[column - 1] and
\* y[row - 1] panic for a cell outside the table (an index out of bounds, or
\* column - 1 underflowing).
RECURSIVE fill(_, _, _, _, _)
fill(xs, ys, mode, w, s) ==
    LET r == WindowNext(w) IN
    IF r.item = None THEN [panic |-> "none", storage |-> s]
    ELSE LET row    == r.item[1][1]
             column == r.item[1][2]
         IN  IF row < 1 \/ row > Len(ys) \/ column < 1 \/ column > Len(xs)
             THEN [panic |-> "index out of bounds", storage |-> s]
             ELSE LET cost == local_cost(xs, ys, row, column, mode)
                      min  == cell_minimum(s, row, column)
                      s1   == set_cost(s, row, column, Add(cost, min.value))
                      s2   == set_action(s1, row, column, min.action)
                  IN  fill(xs, ys, mode, r.self, s2)

\* Where a stored action sends the backtracker: a deletion that moves diagonally
backtrack_step_deleted_diagonal(row, column, action) ==
    IF action = "Inserted" THEN <<row - 1, column>>
    ELSE <<row - 1, column - 1>>

\* Where a stored action sends the backtracker: lines 98-101 of dtw_ex
backtrack_step(row, column, action) ==
    IF action = "Inserted" THEN <<row - 1, column>>
    ELSE IF action = "Deleted" THEN <<row, column - 1>>
    ELSE <<row - 1, column - 1>>

\* The backtracking loop: lines 90-110 of dtw_ex.  path is in the order the
\* loop writes it, last cell first.
RECURSIVE backtrack(_, _, _, _)
backtrack(s, row, column, path) ==
    IF row = 0 \/ column = 0 THEN [panic |-> "none", path |-> path]
    ELSE IF ~HasAction(s, row, column)
    THEN [panic |-> "no entry found for key", path |-> path]
    ELSE IF get_action(s, row, column) = "Unknown"
    THEN [panic |-> "unknown error during the generation of the warp path",
          path |-> path]
    ELSE LET to == backtrack_step(row, column, get_action(s, row, column))
         IN  backtrack(s, to[1], to[2], Append(path, <<row - 1, column - 1>>))

\* path.slice_move(s![..path_len;-1])
Reverse(seq) == [k \in 1..Len(seq) |-> seq[Len(seq) + 1 - k]]

\* dtw_ex; budget is MAX_COST_STORAGE_MATRIX when the call is made.  The
\* result carries, beside (distance, path), the bottom-right cost before the
\* square root and whether the call panicked.
dtw_ex(xs, ys, w, mode, budget) ==
    LET x_size == Len(xs)
        y_size == Len(ys)
        filled == fill(xs, ys, mode, w, cost_storage(y_size, x_size, budget))
        cost   == get_cost(filled.storage, y_size, x_size)
        back   == backtrack(filled.storage, y_size, x_size, <<>>)
    IN  IF filled.panic # "none" THEN Panicked(filled.panic)
        ELSE IF back.panic # "none" THEN Panicked(back.panic)
        ELSE [panic    |-> "none",
              distance |-> IF mode = "Manhattan" THEN Plain(cost) ELSE Sqrt(cost),
              cost     |-> cost,
              path     |-> Reverse(back.path)]

\* dtw: rows = |y|, columns = |x|, Euclidean
dtw(xs, ys, budget) ==
    dtw_ex(xs, ys, FullWindowNew(Len(ys), Len(xs)), "Euclidean", budget)

----------------------------------------------------------------------------
(* fastdtw.rs *)

\* ts[a] + ... + ts[b], 1-based
RECURSIVE SumRange(_, _, _)
SumRange(ts, a, b) == IF a > b THEN 0 ELSE ts[a] + SumRange(ts, a + 1, b)

\* (len as f64 / resolution_factor as f64).ceil() as usize
CoarseSize(n, factor) == (n + factor - 1) \div factor

\* coarse_time_series, for resolution_factor > 0 (assert!): entry j is the
\* average of the block that starts at pos = (j - 1) * resolution_factor and
\* ends before min(pos + resolution_factor, len)
coarse_time_series(ts, factor) ==
    [j \in 1..CoarseSize(Len(ts), factor) |->
        LET pos == (j - 1) * factor
            end == IF pos + factor < Len(ts) THEN pos + factor ELSE Len(ts)
        IN  SumRange(ts, pos + 1, end) \div (end - pos)]

\* Line 47: the base case of fastdtw_ex
is_base_case(xs, ys, radius) == Len(xs) <= radius + 2 \/ Len(ys) <= radius + 2

----------------------------------------------------------------------------
(* Variables a specification does not use keep the value Unused *)

IdleMin  == min_args = Unused /\ min_ret = Unused
IdleCall == x = Unused /\ y = Unused /\ distance_mode = Unused
            /\ MAX_COST_STORAGE_MATRIX = Unused
IdleDtw  == dtw_ret = Unused /\ dtw_rev = Unused
IdleWin  == win_args = Unused /\ window = Unused /\ produced = Unused
IdleSto  == dense = Unused /\ sparse = Unused /\ writes = Unused
IdleFast == resolution_factor = Unused /\ search_radius = Unused
            /\ stack = Unused /\ pc = Unused /\ fast_ret = Unused

----------------------------------------------------------------------------
(* minimum applied to every triple of costs *)

Costs == (0..MaxCost) \cup {INFINITY}

InitMinimum ==
    /\ min_args \in [i : Costs, d : Costs, m : Costs]
    /\ min_ret = None
    /\ IdleCall /\ IdleDtw /\ IdleWin /\ IdleSto /\ IdleFast

CallMinimum ==
    /\ min_ret = None
    /\ min_ret' = Some(minimum(min_args.i, min_args.d, min_args.m))
    /\ UNCHANGED <<min_args, callVars, dtwVars, winVars, stoVars, fastVars>>

NextMinimum == CallMinimum

SpecMinimum == InitMinimum /\ [][NextMinimum]_vars

\* The least of three f64 values
Least3(i, d, m) ==
    IF ~Lt(d, i) /\ ~Lt(m, i) THEN i ELSE IF ~Lt(m, d) THEN d ELSE m

\* C9 as claimed: minimum returns the least value, and among the least
\* values the action is chosen in the order insertion, deletion, match.
C9_InsertionFirst ==
    min_ret # None =>
        LET least == Least3(min_args.i, min_args.d, min_args.m) IN
        /\ min_ret[1].value = least
        /\ min_ret[1].action =
              IF min_args.i = least THEN "Inserted"
              ELSE IF min_args.d = least THEN "Deleted"
              ELSE "Matched"

\* C9 amended: minimum returns the least value, and among the least values
\* the action is chosen in the order match, deletion, insertion (Inserted
\* only when insertion is strictly below both others, Deleted only when
\* deletion is strictly below match and not above insertion).
C9_MatchFirst ==
    min_ret # None =>
        LET least == Least3(min_args.i, min_args.d, min_args.m) IN
        /\ min_ret[1].value = least
        /\ min_ret[1].action =
              IF min_args.m = least THEN "Matched"
              ELSE IF min_args.d = least THEN "Deleted"
              ELSE "Inserted"

\* minimum has been applied to a tie between insertion and deletion below match
C9_Witness ==
    /\ min_ret # None
    /\ min_args.i = min_args.d
    /\ Lt(min_args.i, min_args.m)
    /\ min_ret[1].action = "Deleted"

----------------------------------------------------------------------------
(* A CostMatrix and a CostCache created for the same table and given the    *)
(* same writes                                                              *)

InitStorage ==
    /\ \E rows \in 1..MaxDim, columns \in 1..MaxDim :
          /\ dense = CostMatrixNew(rows, columns)
          /\ sparse = CostCacheNew(rows)
          /\ writes = [rows |-> rows, columns |-> columns,
                       costs |-> {}, actions |-> {},
                       n_costs |-> 0, n_actions |-> 0]
    /\ IdleMin /\ IdleCall /\ IdleDtw /\ IdleWin /\ IdleFast

SetCost ==
    /\ writes.n_costs < MaxWrites
    /\ \E row \in 1..writes.rows, column \in 1..writes.columns, cost \in Costs :
          /\ dense' = set_cost(dense, row, column, cost)
          /\ sparse' = set_cost(sparse, row, column, cost)
          /\ writes' = [writes EXCEPT !.costs = @ \cup {<<row, column>>},
                                      !.n_costs = @ + 1]
    /\ UNCHANGED <<minVars, callVars, dtwVars, winVars, fastVars>>

SetAction ==
    /\ writes.n_actions < MaxWrites
    /\ \E row \in 1..writes.rows, column \in 1..writes.columns,
          action \in Action \ {"Unknown"} :
          /\ dense' = set_action(dense, row, column, action)
          /\ sparse' = set_action(sparse, row, column, action)
          /\ writes' = [writes EXCEPT !.actions = @ \cup {<<row, column>>},
                                      !.n_actions = @ + 1]
    /\ UNCHANGED <<minVars, callVars, dtwVars, winVars, fastVars>>

NextStorage == SetCost \/ SetAction

SpecStorage == InitStorage /\ [][NextStorage]_vars

\* C8: after the same writes both storages answer every get_cost on the
\* table and its boundary alike, +infinity for a cell with both indices
\* positive that was never written, and every get_action on a written cell
\* alike.
C8_StorageEquivalence ==
    /\ \A row \in 0..writes.rows, column \in 0..writes.columns :
          /\ get_cost(dense, row, column) = get_cost(sparse, row, column)
          /\ (row > 0 /\ column > 0 /\ <<row, column>> \notin writes.costs) =>
                /\ get_cost(dense, row, column) = INFINITY
                /\ get_cost(sparse, row, column) = INFINITY
    /\ \A cell \in writes.actions :
          /\ HasAction(dense, cell[1], cell[2])
          /\ HasAction(sparse, cell[1], cell[2])
          /\ get_action(dense, cell[1], cell[2]) = get_action(sparse, cell[1], cell[2])

----------------------------------------------------------------------------
(* A FullWindow iterated to its end and beyond *)

\* How many times next() has returned None
Nones == Cardinality({k \in 1..Len(produced) : produced[k] = None})

\* The pairs next() has returned, in order
Items ==
    LET some == SelectSeq(produced, LAMBDA item : item # None)
    IN  [k \in 1..Len(some) |-> some[k][1]]

InitFullWindow ==
    /\ win_args \in [rows : 0..MaxSize, columns : 0..MaxSize]
    /\ window = FullWindowNew(win_args.rows, win_args.columns)
    /\ produced = <<>>
    /\ IdleMin /\ IdleCall /\ IdleDtw /\ IdleSto /\ IdleFast

FullNext ==
    /\ Nones < MaxNones
    /\ window' = FullWindowNext(window).self
    /\ produced' = Append(produced, FullWindowNext(window).item)
    /\ UNCHANGED <<win_args, minVars, callVars, dtwVars, stoVars, fastVars>>

NextFullWindow == FullNext

SpecFullWindow == InitFullWindow /\ [][NextFullWindow]_vars

\* The cells of a rows x columns table in row-major order, 1-based
RowMajor(rows, columns) ==
    [k \in 1..rows * columns |-> <<((k - 1) \div columns) + 1, ((k - 1) % columns) + 1>>]

IsPrefix(s, t) == Len(s) <= Len(t) /\ \A k \in 1..Len(s) : s[k] = t[k]

\* C5: for every y_size (rows) and x_size (columns) the Full Window yields
\* exactly the cells of the table, each once, in row-major order: what it
\* has yielded is always a prefix of that enumeration, and once next() has
\* returned nothing the enumeration is complete and nothing more is yielded.
C5_FullWindowRowMajor ==
    /\ IsPrefix(Items, RowMajor(win_args.rows, win_args.columns))
    /\ \A k \in 1..Len(produced) :
          produced[k] = None =>
              /\ \A j \in k..Len(produced) : produced[j] = None
              /\ Items = RowMajor(win_args.rows, win_args.columns)


----------------------------------------------------------------------------
(* A ConstrainedWindow built from a low resolution path and iterated to its *)
(* end and beyond                                                           *)

WarpSteps == {<<1, 0>>, <<0, 1>>, <<1, 1>>}

\* The paths of 1..MaxPath cells inside a coarse table, 0-based, each cell
\* one warp step from the cell before it
RECURSIVE PathsInside(_, _, _)
PathsInside(rows, columns, n) ==
    IF n = 1 THEN {<<cell>> : cell \in (0..rows - 1) \X (0..columns - 1)}
    ELSE LET shorter == PathsInside(rows, columns, n - 1)
             longer  == {Append(p, <<p[Len(p)][1] + step[1], p[Len(p)][2] + step[2]>>) :
                            p \in {q \in shorter : Len(q) = n - 1}, step \in WarpSteps}
         IN  shorter \cup {p \in longer : p[n][1] < rows /\ p[n][2] < columns}

InitConstrained ==
    /\ \E factor \in 1..MaxFactor, radius \in 0..MaxRadius,
          high_res_rows \in 1..MaxHigh, high_res_columns \in 1..MaxHigh :
          \E low_res_path \in PathsInside(CoarseSize(high_res_rows, factor),
                                          CoarseSize(high_res_columns, factor),
                                          MaxPath) :
             /\ win_args = [low_res_path      |-> low_res_path,
                            resolution_factor |-> factor,
                            search_radius     |-> radius,
                            high_res_rows     |-> high_res_rows,
                            high_res_columns  |-> high_res_columns]
             /\ window = from_low_res_path(low_res_path, factor, radius,
                                           high_res_rows, high_res_columns)
    /\ produced = <<>>
    /\ IdleMin /\ IdleCall /\ IdleDtw /\ IdleSto /\ IdleFast

ConstrainedNext ==
    /\ Nones < MaxNones
    /\ window' = ConstrainedWindowNext(window).self
    /\ produced' = Append(produced, ConstrainedWindowNext(window).item)
    /\ UNCHANGED <<win_args, minVars, callVars, dtwVars, stoVars, fastVars>>

NextConstrained == ConstrainedNext

SpecConstrained == InitConstrained /\ [][NextConstrained]_vars

\* C6: every (row, column) a Constrained Window produces lies within the
\* bounds of its row after the radius expansion; in particular the first row
\* is iterated from its own minimum column.
C6_WithinConstraints ==
    \A k \in 1..Len(Items) :
        /\ window.constraints[Items[k][1]][1] <= Items[k][2]
        /\ Items[k][2] <= window.constraints[Items[k][1]][2]

\* The rows the loop over the path marked (by a block or a patch)
MarkedRows ==
    LET marked == projected(win_args.low_res_path, win_args.resolution_factor,
                            win_args.high_res_rows, win_args.high_res_columns)
    IN  {row \in 1..win_args.high_res_rows : marked[row] # <<USIZE_MAX, 0>>}

\* The rows within search_radius rows of a marked row
ApproachedRows ==
    {row \in 1..win_args.high_res_rows :
        \E near \in MarkedRows :
            /\ near - row <= win_args.search_radius
            /\ row - near <= win_args.search_radius}

\* C7: a row the coarse path never approaches keeps the bounds (MAX, 0) and
\* produces no pair, and every pair produced has 1 <= column <= high_res_columns.
C7_UnapproachedRowsSkipped ==
    /\ \A row \in (1..win_args.high_res_rows) \ ApproachedRows :
          /\ window.constraints[row] = <<USIZE_MAX, 0>>
          /\ \A k \in 1..Len(Items) : Items[k][1] # row
    /\ \A k \in 1..Len(Items) :
          1 <= Items[k][2] /\ Items[k][2] <= win_args.high_res_columns

----------------------------------------------------------------------------
(* dtw on every pair of short time series, in both argument orders *)

Samples == {0, 1, 2}

\* The non-empty series of at most n samples
Series(S, n) == UNION {[1..k -> S] : k \in 1..n}

\* config_max_cost_storage_matrix(0) makes every storage sparse; a budget
\* above every table of the model makes every storage dense, as the default
\* of 32 GiB does.
Budgets == {0, SizeOfF64 * (MaxLenFast + 2) * (MaxLenFast + 2)}

\* The value the static starts with, 32 GiB: above every table of the model
DefaultBudget == SizeOfF64 * (MaxLenFast + 2) * (MaxLenFast + 2)

\* config_max_cost_storage_matrix(max): the public setter assigns the
\* static.  The static is a static mut read once by cost_storage at the
\* start of every dtw_ex and written without synchronisation, so the setter
\* may run between any two steps, from this or from another thread; a
\* racing read sees the value before or after the write, which is the
\* value at the step of the call.  Calls made before and after a step of the
\* setter may so run on different storages, whatever the sizes of their
\* tables.
config_max_cost_storage_matrix ==
    /\ \E max \in Budgets \ {MAX_COST_STORAGE_MATRIX} :
          MAX_COST_STORAGE_MATRIX' = max
    /\ UNCHANGED <<x, y, distance_mode, minVars, dtwVars, winVars, stoVars,
                   fastVars>>

Init ==
    /\ x \in Series(Samples, MaxLen)
    /\ y \in Series(Samples, MaxLen)
    /\ distance_mode \in DistanceMode
    /\ MAX_COST_STORAGE_MATRIX = DefaultBudget
    /\ dtw_ret = None
    /\ dtw_rev = None
    /\ IdleMin /\ IdleWin /\ IdleSto /\ IdleFast

\* dtw(x, y), or dtw_ex(x, y, FullWindow::new(rows, columns), Manhattan)
CallDtw ==
    /\ dtw_ret = None
    /\ dtw_ret' = Some(IF distance_mode = "Euclidean"
                       THEN dtw(x, y, MAX_COST_STORAGE_MATRIX)
                       ELSE dtw_ex(x, y, FullWindowNew(Len(y), Len(x)),
                                   distance_mode, MAX_COST_STORAGE_MATRIX))
    /\ UNCHANGED <<dtw_rev, minVars, callVars, winVars, stoVars, fastVars>>

\* Then the same call with the two series exchanged
CallDtwSwapped ==
    /\ dtw_ret # None
    /\ dtw_rev = None
    /\ dtw_rev' = Some(IF distance_mode = "Euclidean"
                       THEN dtw(y, x, MAX_COST_STORAGE_MATRIX)
                       ELSE dtw_ex(y, x, FullWindowNew(Len(x), Len(y)),
                                   distance_mode, MAX_COST_STORAGE_MATRIX))
    /\ UNCHANGED <<dtw_ret, minVars, callVars, winVars, stoVars, fastVars>>

Next == CallDtw \/ CallDtwSwapped \/ config_max_cost_storage_matrix

Spec == Init /\ [][Next]_vars

\* The sum of the local costs of the cells of a path
RECURSIVE PathCost(_, _, _, _)
PathCost(p, xs, ys, mode) ==
    IF p = <<>> THEN 0
    ELSE local_cost(xs, ys, p[1][1] + 1, p[1][2] + 1, mode)
         + PathCost(Tail(p), xs, ys, mode)

\* The sums of local costs of all warp paths from (0, 0) to (r, c), 0-based
\* (y index, x index): a warp path to (r, c) is a warp path to the cell
\* above, to the left or diagonally above, followed by (r, c).
RECURSIVE WarpPathCosts(_, _, _, _, _)
WarpPathCosts(r, c, xs, ys, mode) ==
    LET here == local_cost(xs, ys, r + 1, c + 1, mode)
        from == (IF r > 0 THEN WarpPathCosts(r - 1, c, xs, ys, mode) ELSE {})
                \cup (IF c > 0 THEN WarpPathCosts(r, c - 1, xs, ys, mode) ELSE {})
                \cup (IF r > 0 /\ c > 0
                      THEN WarpPathCosts(r - 1, c - 1, xs, ys, mode) ELSE {})
    IN  IF r = 0 /\ c = 0 THEN {here} ELSE {here + k : k \in from}

\* The least cost of a warp path aligning xs with ys
OptimalCost(xs, ys, mode) ==
    LET costs == WarpPathCosts(Len(ys) - 1, Len(xs) - 1, xs, ys, mode)
    IN  CHOOSE c \in costs : \A other \in costs : c <= other

\* p starts at (0, 0), ends at (rows - 1, columns - 1) and moves by warp steps
IsWarpPath(p, rows, columns) ==
    /\ Len(p) >= 1
    /\ p[1] = <<0, 0>>
    /\ p[Len(p)] = <<rows - 1, columns - 1>>
    /\ \A k \in 1..Len(p) - 1 :
          <<p[k + 1][1] - p[k][1], p[k + 1][2] - p[k][2]>> \in WarpSteps

\* C1: dtw_ex with a Full Window returns the optimal alignment: the
\* bottom-right accumulated cost (the distance before the square root) is
\* the least sum of local costs over all warp paths, and the returned path
\* has that sum.
C1_Optimal ==
    dtw_ret # None =>
        LET optimum == OptimalCost(x, y, distance_mode) IN
        /\ dtw_ret[1].panic = "none"
        /\ dtw_ret[1].cost = optimum
        /\ PathCost(dtw_ret[1].path, x, y, distance_mode) = optimum

\* dtw_ex has returned a positive optimum over a table of at least 2 x 2
\* cells whose path leaves the diagonal
C1_Witness ==
    /\ dtw_ret # None
    /\ Len(x) >= 2 /\ Len(y) >= 2
    /\ dtw_ret[1].cost > 0
    /\ \E k \in 1..Len(dtw_ret[1].path) :
          dtw_ret[1].path[k][1] # dtw_ret[1].path[k][2]

\* C2: the path returned with a Full Window starts at (0, 0), ends at
\* (|y| - 1, |x| - 1) and moves only by (1,0), (0,1), (1,1); backtracking
\* reads no Unknown action (the call does not panic).
C2_WarpPath ==
    dtw_ret # None =>
        /\ dtw_ret[1].panic = "none"
        /\ IsWarpPath(dtw_ret[1].path, Len(y), Len(x))

\* dtw_ex has returned a path with a diagonal step, a row step and a column step
C2_Witness ==
    /\ dtw_ret # None
    /\ LET p == dtw_ret[1].path
           step(k) == <<p[k + 1][1] - p[k][1], p[k + 1][2] - p[k][2]>>
       IN  \A s \in WarpSteps : \E k \in 1..Len(p) - 1 : step(k) = s

\* C10: dtw(x, y) and dtw(y, x) return the same distance, and so does
\* dtw_ex with a Full Window in Manhattan mode.
C10_Symmetric ==
    (dtw_ret # None /\ dtw_rev # None) =>
        /\ dtw_ret[1].panic = "none"
        /\ dtw_rev[1].panic = "none"
        /\ dtw_ret[1].distance = dtw_rev[1].distance

\* Both calls have returned, for different series at a positive distance,
\* with paths that are not mirror images of each other
C10_Witness ==
    /\ dtw_ret # None /\ dtw_rev # None
    /\ x # y
    /\ dtw_ret[1].distance.num > 0
    /\ dtw_rev[1].path #
          [k \in 1..Len(dtw_ret[1].path) |->
              <<dtw_ret[1].path[k][2], dtw_ret[1].path[k][1]>>]

\* The diagonal [(0,0), (1,1), ..., (n-1,n-1)]
Diagonal(n) == [k \in 1..n |-> <<k - 1, k - 1>>]

\* C11: dtw(x, x) returns the distance 0 and exactly the diagonal path, for
\* every non-empty x, series with repeated values included.
C11_Identity ==
    (dtw_ret # None /\ distance_mode = "Euclidean" /\ x = y) =>
        /\ dtw_ret[1].panic = "none"
        /\ dtw_ret[1].distance = [num |-> 0, root |-> FALSE]
        /\ dtw_ret[1].path = Diagonal(Len(x))

\* dtw(x, x) has returned for a series of three samples with a repeated
\* value, where every predecessor of a diagonal cell ties at cost 0
C11_Witness ==
    /\ dtw_ret # None
    /\ distance_mode = "Euclidean"
    /\ x = y
    /\ Len(x) = 3
    /\ x[1] = x[2]
    /\ dtw_ret[1].path = Diagonal(3)

\* C12 as stated: dtw on x = [0,0,0], y = [0,2,0] in Euclidean mode returns
\* the distance 4 and a warp path that leaves the diagonal by an insertion
\* or a deletion step.
C12_DistanceFourDetour ==
    (dtw_ret # None /\ distance_mode = "Euclidean"
     /\ x = <<0, 0, 0>> /\ y = <<0, 2, 0>>) =>
        /\ dtw_ret[1].panic = "none"
        /\ dtw_ret[1].distance = [num |-> 4, root |-> FALSE]
        /\ IsWarpPath(dtw_ret[1].path, 3, 3)
        /\ dtw_ret[1].path # Diagonal(3)

\* C12 amended: dtw on x = [0,0,0], y = [0,2,0] in Euclidean mode returns
\* the distance 2, the square root of the accumulated cost 4, and the pure
\* diagonal path [(0,0), (1,1), (2,2)].
C12_DistanceTwoDiagonal ==
    (dtw_ret # None /\ distance_mode = "Euclidean"
     /\ x = <<0, 0, 0>> /\ y = <<0, 2, 0>>) =>
        /\ dtw_ret[1].panic = "none"
        /\ dtw_ret[1].cost = 4
        /\ dtw_ret[1].distance = [num |-> 2, root |-> FALSE]
        /\ dtw_ret[1].path = Diagonal(3)

\* dtw has returned for x = [0,0,0], y = [0,2,0] in Euclidean mode
C12_Witness ==
    /\ dtw_ret # None
    /\ distance_mode = "Euclidean"
    /\ x = <<0, 0, 0>> /\ y = <<0, 2, 0>>
    /\ dtw_ret[1].cost = 4


----------------------------------------------------------------------------
(* fastdtw_ex, one recursion level at a time.  stack holds the arguments of *)
(* the nested calls, the innermost last; fast_ret is what the level that    *)
(* finished last returned.                                                  *)

\* Samples whose block averages are whole numbers at every level the model
\* reaches (blocks of 1 to 4 samples, averaged at most twice)
FastSamples == {0, 12}

InitFast ==
    /\ x \in Series(FastSamples, MaxLenFast)
    /\ y \in Series(FastSamples, MaxLenFast)
    /\ distance_mode \in DistanceMode
    /\ MAX_COST_STORAGE_MATRIX = DefaultBudget
    /\ resolution_factor \in 0..MaxFactor
    /\ search_radius \in 0..MaxRadius
    /\ stack = << [x |-> x, y |-> y] >>
    /\ pc = "call"
    /\ fast_ret = None
    /\ IdleMin /\ IdleDtw /\ IdleWin /\ IdleSto

Top == stack[Len(stack)]

\* Lines 47-49: the base case runs dtw_ex over a Full Window
Base ==
    /\ pc = "call"
    /\ is_base_case(Top.x, Top.y, search_radius)
    /\ fast_ret' = Some([ret |-> dtw_ex(Top.x, Top.y,
                                        FullWindowNew(Len(Top.y), Len(Top.x)),
                                        distance_mode, MAX_COST_STORAGE_MATRIX),
                         constraints |-> None,
                         level |-> 0])
    /\ pc' = "return"
    /\ UNCHANGED <<resolution_factor, search_radius, stack,
                   minVars, callVars, dtwVars, winVars, stoVars>>

\* Lines 55-64: the recursive case coarsens both series and calls
\* fastdtw_ex on them; coarse_time_series asserts resolution_factor > 0
Descend ==
    /\ pc = "call"
    /\ ~is_base_case(Top.x, Top.y, search_radius)
    /\ Len(stack) < MaxDepth
    /\ IF resolution_factor > 0
       THEN /\ stack' = Append(stack,
                               [x |-> coarse_time_series(Top.x, resolution_factor),
                                y |-> coarse_time_series(Top.y, resolution_factor)])
            /\ pc' = "call"
       ELSE /\ stack' = stack
            /\ pc' = "panic"
    /\ UNCHANGED <<resolution_factor, search_radius, fast_ret,
                   minVars, callVars, dtwVars, winVars, stoVars>>

\* Lines 58-74: the nested call has returned its path to the caller, which
\* builds the Constrained Window from it and runs dtw_ex over that window.
\* A panic of the nested call unwinds the caller too.
Refine ==
    /\ pc = "return"
    /\ Len(stack) > 1
    /\ LET caller == stack[Len(stack) - 1]
           low_res_path == fast_ret[1].ret.path
           constrained_window ==
               from_low_res_path(low_res_path, resolution_factor, search_radius,
                                 Len(caller.y), Len(caller.x))
       IN  IF fast_ret[1].ret.panic # "none"
           THEN /\ fast_ret' = fast_ret
                /\ pc' = "panic"
           ELSE /\ fast_ret' = Some([ret |-> dtw_ex(caller.x, caller.y,
                                                    constrained_window, distance_mode,
                                                    MAX_COST_STORAGE_MATRIX),
                                     constraints |-> Some(constrained_window.constraints),
                                     level |-> fast_ret[1].level + 1])
                /\ pc' = "return"
    /\ stack' = SubSeq(stack, 1, Len(stack) - 1)
    /\ UNCHANGED <<resolution_factor, search_radius,
                   minVars, callVars, dtwVars, winVars, stoVars>>

\* The outermost call returns (or has panicked in its own dtw_ex)
Finish ==
    /\ pc = "return"
    /\ Len(stack) = 1
    /\ pc' = IF fast_ret[1].ret.panic # "none" THEN "panic" ELSE "done"
    /\ UNCHANGED <<resolution_factor, search_radius, stack, fast_ret,
                   minVars, callVars, dtwVars, winVars, stoVars>>

NextFast ==
    Base \/ Descend \/ Refine \/ Finish \/ config_max_cost_storage_matrix

SpecFast == InitFast /\ [][NextFast]_vars

\* C3: for resolution_factor >= 2 fastdtw_ex never fails: at every level
\* dtw_ex returns without panic (no Unknown action, no failed lookup, no
\* index out of bounds), the bottom-right cost is finite, the path is a warp
\* path from (0,0) to (|y|-1,|x|-1) of that level, and every cell of the
\* path (the cells the backtracker visits) lies in the Constrained Window
\* built from the coarser path.
C3_FastDtwNeverFails ==
    resolution_factor >= 2 =>
        /\ pc # "panic"
        /\ fast_ret # None =>
              LET level  == IF pc = "done" THEN stack[1] ELSE Top
                  ret    == fast_ret[1].ret
                  bounds == fast_ret[1].constraints
              IN  /\ ret.panic = "none"
                  /\ ret.cost # INFINITY
                  /\ IsWarpPath(ret.path, Len(level.y), Len(level.x))
                  /\ bounds # None =>
                        \A k \in 1..Len(ret.path) :
                            /\ bounds[1][ret.path[k][1] + 1][1] <= ret.path[k][2] + 1
                            /\ ret.path[k][2] + 1 <= bounds[1][ret.path[k][1] + 1][2]

\* fastdtw_ex has returned after two refinements over Constrained Windows,
\* the last of which leaves out part of the table
C3_Witness ==
    /\ pc = "done"
    /\ resolution_factor >= 2
    /\ fast_ret[1].level = 2
    /\ \E row \in 1..Len(y) :
          \/ fast_ret[1].constraints[1][row][1] > 1
          \/ fast_ret[1].constraints[1][row][2] < Len(x)

\* C4: for resolution_factor >= 1 the recursion reaches the base case:
\* every nested call works on strictly shorter series than its caller (a
\* call on series of the same lengths repeats its caller's step for ever).
C4_RecursionShrinks ==
    resolution_factor >= 1 =>
        \A k \in 2..Len(stack) :
            /\ Len(stack[k].x) < Len(stack[k - 1].x)
            /\ Len(stack[k].y) < Len(stack[k - 1].y)

\* The square of a finite distance, which orders distances as their values do
Squared(d) == IF d.root THEN d.num ELSE d.num * d.num

\* dtw_ex with a Full Window on the series of a recursion level
ExactDtw(level) ==
    dtw_ex(level.x, level.y, FullWindowNew(Len(level.y), Len(level.x)),
           distance_mode, MAX_COST_STORAGE_MATRIX)

\* C13: for resolution_factor >= 2 the distance fastdtw_ex returns is never
\* smaller than the distance dtw_ex returns with a Full Window on the same
\* series, and the two results (distance and path) are identical when
\* either length is at most search_radius + 2.
C13_NeverBelowExact ==
    (resolution_factor >= 2 /\ fast_ret # None) =>
        LET level == IF pc = "done" THEN stack[1] ELSE Top
            ret   == fast_ret[1].ret
            exact == ExactDtw(level)
        IN  /\ ret.panic = "none"
            /\ exact.panic = "none"
            /\ ret.distance.num # INFINITY
            /\ exact.distance.num # INFINITY
            /\ Squared(exact.distance) <= Squared(ret.distance)
            /\ is_base_case(level.x, level.y, search_radius) => ret = exact

\* fastdtw_ex has returned from a recursive case with a distance strictly
\* greater than the exact one: the Constrained Window lost the best path
C13_Witness ==
    /\ pc = "done"
    /\ resolution_factor >= 2
    /\ ~is_base_case(x, y, search_radius)
    /\ fast_ret[1].ret.panic = "none"
    /\ Squared(fast_ret[1].ret.distance) > Squared(ExactDtw(stack[1]).distance)


=============================================================================
